---- MODULE Spec2Model ----
(***************************************************************************)
(* Model of the EPG acquisition firmware (firmware/src/main.c, adc.c,      *)
(* bluetooth.c): the command and phase gate (UART callback, wireless write *)
(* callback, the polling loops of main), the double-buffered sampler with  *)
(* its staging slot and deferred task, and the chunked notification        *)
(* transport.                                                              *)
(*                                                                         *)
(* Execution contexts and their granularity:                               *)
(*   - main thread: one step per statement that reads or writes shared     *)
(*     state (a preemptible thread);                                       *)
(*   - UART callback and SAADC event handler: interrupt context, each      *)
(*     invocation is one atomic step with respect to the threads;          *)
(*   - deferred task (system work queue): one step per shared read/write,  *)
(*     may be preempted by the SAADC interrupt at any point;               *)
(*   - wireless stack callbacks: one atomic step per callback.             *)
(***************************************************************************)
EXTENDS Integers, Sequences, FiniteSets, TLC

(***************************************************************************)
(* Characters are modelled by their ASCII codes, strings by sequences of   *)
(* one-character strings that Bytes turns into codes.                      *)
(***************************************************************************)
DigitChars == <<"0", "1", "2", "3", "4", "5", "6", "7", "8", "9">>

UpperChars == <<"A", "B", "C", "D", "E", "F", "G", "H", "I", "J", "K", "L", "M",
                "N", "O", "P", "Q", "R", "S", "T", "U", "V", "W", "X", "Y", "Z">>

SeqRange(s) == {s[i] : i \in 1..Len(s)}

IndexOf(s, c) == CHOOSE i \in 1..Len(s) : s[i] = c

\* ASCII code of a character; "CR" is '\r', "NUL" is '\0', "n" and "o" stand
\* for lower-case letters (outside the set the UART callback accepts).
OtherChars == <<"NUL", "CR", " ", "+", "-", ".", ":", "n", "o">>

OtherCodes == <<0, 13, 32, 43, 45, 46, 58, 110, 111>>

Ascii ==
  [c \in SeqRange(DigitChars) \cup SeqRange(UpperChars) \cup SeqRange(OtherChars) |->
     IF c \in SeqRange(DigitChars) THEN 47 + IndexOf(DigitChars, c)
     ELSE IF c \in SeqRange(UpperChars) THEN 64 + IndexOf(UpperChars, c)
     ELSE OtherCodes[IndexOf(OtherChars, c)]]

Ord(c) == Ascii[c]

Bytes(s) == [i \in 1..Len(s) |-> Ord(s[i])]

Min(a, b) == IF a < b THEN a ELSE b

(***************************************************************************)
(* Sizes.  The two buffer sizes of the command channels are the program's  *)
(* own.  The sample-block geometry is scaled down: the program has         *)
(* SAMPLES_PER_NOTIFY = 40 and SAADC_BUFFER_SIZE = 3000 = 75 * 40; the     *)
(* model keeps both small, the block two chunks long.                      *)
(***************************************************************************)
COMMAND_BUFFER_SIZE == 32

RECEIVE_BUFF_SIZE == 20

SAMPLES_PER_NOTIFY == 2

SAADC_BUFFER_SIZE == 4

\* Number of completions (DONE events) followed in one behaviour.
MaxDone == 3

\* No buffer (a NULL buffer pointer of the driver).
NONE == 0 - 1

\* No setting stored by a branch of the write callback.
NoPair == <<>>

VARIABLES
  \* ---- main.c: orchestration flow and UART callback
  main_pc,            \* position of main()
  main_tmp,           \* value returned by ble_on_received()/ble_start_received(), not yet stored
  start_received,     \* main.c:54
  on_recieved,        \* main.c:55
  command_buffer,     \* main.c:52
  cmd_index,          \* main.c:53
  uart_rx_enabled,    \* uart_rx_enable() has been called
  uart_line,          \* environment: the line the serial peer is sending (0: none)
  uart_pos,           \* environment: characters of that line already delivered
  \* ---- bluetooth.c: wireless command channel
  ble_ready,          \* bluetooth.c:28
  write_buffer,       \* bluetooth.c:32
  digipot_channel, digipot_setting, pga_number, pga_setting,  \* bluetooth.c:35-39
  bt_start_received,  \* bluetooth.c:41 (static start_received)
  bt_on_received,     \* bluetooth.c:42 (static on_received)
  last_calls,         \* calls to external collaborators made by the latest handler run
  last_write,         \* the bytes of the latest wireless write
  \* ---- history of the command channels
  on_seen,            \* an ON command has been sent on either channel
  start_seen,         \* a START command has been sent on either channel
  \* ---- adc.c: trigger fabric and converter driver
  timer_inited, timer_enabled,
  saadc_state,        \* driver state: uninit, idle, adv, sample, started
  hw_primary,         \* buffer the converter is filling (index or NONE)
  hw_secondary,       \* buffer queued as the next destination (index or NONE)
  hw_started,         \* a STARTED interrupt is pending
  ppi_allocated,      \* routing channels allocated so far
  ppi_enabled,        \* routing channels enabled
  work_inited,        \* k_work_init has run
  init_failed,        \* some step of saadc_start reported an error
  \* ---- adc.c: sampler, staging slot, deferred task
  saadc_current_buffer, g_ble_buf, g_ble_len,
  work_pending,       \* the work item is queued
  wk_pc, idx, wk_len, chunk_samples, wk_i, payload,
  \* ---- bluetooth.c: connection state
  ble_connected, notify_enabled,
  link_up,            \* a peer holds a connection to the device
  peer_sub,           \* that peer has subscribed to notifications
  \* ---- history of the acquisition pipeline
  done_count,         \* DONE events handled
  last_done_buf,      \* buffer index reported by the latest DONE
  last_block,         \* samples and length staged by the latest DONE
  staged_lens,        \* the length staged by each DONE so far, in order
  stages_since_run,   \* DONE events since the deferred task last started a run
  run_stages,         \* value of stages_since_run when the current/last run started
  run_block,          \* value of last_block when the current/last run started
  run_dirty,          \* a DONE was handled while the current/last run was draining
  run_chunks,         \* payloads handed to ble_send_adc_chunk by the current/last run
  run_notified        \* payloads passed to bt_gatt_notify by the current/last run

gateVars == <<main_pc, main_tmp, start_received, on_recieved>>

uartVars == <<command_buffer, cmd_index, uart_rx_enabled, uart_line, uart_pos>>

bleCmdVars == <<ble_ready, write_buffer, digipot_channel, digipot_setting,
                pga_number, pga_setting, bt_start_received, bt_on_received>>

seenVars == <<on_seen, start_seen>>

fabricVars == <<timer_inited, timer_enabled, saadc_state, hw_primary, hw_secondary,
                hw_started, ppi_allocated, ppi_enabled, work_inited, init_failed>>

stageVars == <<saadc_current_buffer, g_ble_buf, g_ble_len, work_pending>>

wkVars == <<wk_pc, idx, wk_len, chunk_samples, wk_i, payload>>

connVars == <<ble_connected, notify_enabled, link_up, peer_sub>>

histVars == <<done_count, last_done_buf, last_block, staged_lens, stages_since_run,
              run_stages, run_block, run_dirty, run_chunks, run_notified>>

callVars == <<last_calls, last_write>>

vars == <<gateVars, uartVars, bleCmdVars, callVars, seenVars, fabricVars,
          stageVars, wkVars, connVars, histVars>>

(***************************************************************************)
(* Serial command channel: uart_cb (main.c:58-98).                         *)
(***************************************************************************)
\* The characters the callback stores (main.c:64-65).
IsAccepted(c) ==
  \/ (c >= Ord("0") /\ c <= Ord("9"))
  \/ c = Ord(":")
  \/ c = Ord("-")
  \/ (c >= Ord("A") /\ c <= Ord("Z"))
  \/ c = Ord("CR")
  \/ c = Ord(".")

\* The C string held in a buffer: the bytes before the first NUL.
CStr(buf, size) ==
  LET nuls == {i \in 0..(size - 1) : buf[i] = 0}
      n == IF nuls = {} THEN size ELSE CHOOSE i \in nuls : \A j \in nuls : i <= j
  IN [i \in 1..n |-> buf[i - 1]]

\* A store command_buffer[i] = c; a store outside the array leaves it alone.
StoreCmd(buf, i, c) ==
  IF i \in 0..(COMMAND_BUFFER_SIZE - 1) THEN [buf EXCEPT ![i] = c] ELSE buf

\* strcmp(command_buffer, "START") == 0, strcmp(command_buffer, "ON") == 0
StartToken == Bytes(<<"S", "T", "A", "R", "T">>)

OnToken == Bytes(<<"O", "N">>)

IsStartLine(buf) == CStr(buf, COMMAND_BUFFER_SIZE) = StartToken

IsOnLine(buf) == CStr(buf, COMMAND_BUFFER_SIZE) = OnToken

\* case UART_RX_RDY with received character c
UartRxRdy(c) ==
  /\ uart_rx_enabled
  /\ IF IsAccepted(c)
       THEN LET buf1 == StoreCmd(command_buffer, cmd_index, c)
                buf2 == StoreCmd(buf1, cmd_index, 0)
            IN IF c = Ord("CR")
                 THEN /\ command_buffer' = buf2
                      /\ cmd_index' = 0
                      /\ start_received' = (IsStartLine(buf2) \/ start_received)
                      /\ on_recieved' =
                           ((~IsStartLine(buf2) /\ IsOnLine(buf2)) \/ on_recieved)
                 ELSE /\ command_buffer' = buf1
                      /\ cmd_index' = cmd_index + 1
                      /\ UNCHANGED <<start_received, on_recieved>>
       ELSE /\ cmd_index' = 0
            /\ UNCHANGED <<command_buffer, start_received, on_recieved>>

\* The lines the serial peer sends, each ended by a carriage return.
UartLines ==
  << <<"O", "N", "CR">>,
     <<"S", "T", "A", "R", "T", "CR">>,
     <<"n", "CR">> >>

\* The same with a character outside the accepted set before or after the
\* letters of a command.
NoisyLines ==
  << <<"O", "N", "CR">>,
     <<"S", "T", "A", "R", "T", "CR">>,
     <<"n", "O", "N", "CR">>,
     <<"O", "N", "n", "CR">> >>

UartLineBytes == [l \in 1..Len(UartLines) |-> Bytes(UartLines[l])]

NoisyLineBytes == [l \in 1..Len(NoisyLines) |-> Bytes(NoisyLines[l])]

OnLine == Bytes(<<"O", "N", "CR">>)

StartLine == Bytes(<<"S", "T", "A", "R", "T", "CR">>)

\* The serial peer delivers the next character of one of the lines; the
\* callback runs.  on_seen and start_seen record that the peer has sent the
\* whole line ON, or START.
UartFeed(lines) ==
  \E l \in (IF uart_line = 0 THEN 1..Len(lines) ELSE {uart_line}) :
    LET line == lines[l]
        c == line[uart_pos + 1]
    IN /\ UartRxRdy(c)
       /\ IF uart_pos + 1 = Len(line)
            THEN /\ uart_line' = 0 /\ uart_pos' = 0
                 /\ on_seen' = (line = OnLine \/ on_seen)
                 /\ start_seen' = (line = StartLine \/ start_seen)
            ELSE /\ uart_line' = l /\ uart_pos' = uart_pos + 1
                 /\ UNCHANGED seenVars
       /\ UNCHANGED <<main_pc, main_tmp, uart_rx_enabled, bleCmdVars, callVars,
                      fabricVars, stageVars, wkVars, connVars, histVars>>

UartChar == UartFeed(UartLineBytes)

(***************************************************************************)
(* Wireless command channel: write_custom_value (bluetooth.c:62-189).      *)
(***************************************************************************)
\* A copy that appends no terminator.
LoadWrite_NoTerminator(wb, data) ==
  [i \in 0..(RECEIVE_BUFF_SIZE - 1) |-> IF i < Len(data) THEN data[i + 1] ELSE wb[i]]

\* memcpy(write_buffer, buf, len); write_buffer[len] = '\0' (bluetooth.c:66-68).
\* The bytes past the terminator keep what earlier writes left there.
LoadWrite(wb, data) ==
  LET len == Len(data)
      copied == [i \in 0..(RECEIVE_BUFF_SIZE - 1) |->
                   IF i < len THEN data[i + 1] ELSE wb[i]]
  IN IF len < RECEIVE_BUFF_SIZE THEN [copied EXCEPT ![len] = 0] ELSE copied

\* write_buffer[pos], write_buffer[pos+1], ... spell str
Match(wb, pos, str) ==
  \A k \in 1..Len(str) :
     pos + k - 1 < RECEIVE_BUFF_SIZE /\ wb[pos + k - 1] = str[k]

IsDigit(c) == c >= Ord("0") /\ c <= Ord("9")

\* The first position from p on that does not hold a character of set (the
\* position after the buffer when all do).
FirstNotIn(wb, p, set) ==
  LET stops == {j \in p..(RECEIVE_BUFF_SIZE - 1) : wb[j] \notin set}
  IN IF stops = {} THEN (IF p < RECEIVE_BUFF_SIZE THEN RECEIVE_BUFF_SIZE ELSE p)
     ELSE CHOOSE j \in stops : \A k \in stops : j <= k

DigitCodes == {Ord(DigitChars[i]) : i \in 1..Len(DigitChars)}

\* Value of the decimal digits at positions p..(e - 1).
RECURSIVE DigitsValue(_, _, _)
DigitsValue(wb, p, e) ==
  IF p >= e THEN 0 ELSE DigitsValue(wb, p, e - 1) * 10 + (wb[e - 1] - Ord("0"))

\* The decimal digits from position p on: their value and the position after them.
DigitRun(wb, p, acc) ==
  LET e == FirstNotIn(wb, p, DigitCodes)
  IN [val |-> DigitsValue(wb, p, e), end |-> e]

SkipSpace(wb, p) == FirstNotIn(wb, p, {Ord(" ")})

IsNegative(wb, q) == q < RECEIVE_BUFF_SIZE /\ wb[q] = Ord("-")

AfterSign(wb, q) ==
  IF q < RECEIVE_BUFF_SIZE /\ wb[q] \in {Ord("-"), Ord("+")} THEN q + 1 ELSE q

\* atoi(&write_buffer[p]): white space, an optional sign, decimal digits.
\* (Inputs are short enough for the value to fit an int.)
Atoi(wb, p) ==
  LET q == SkipSpace(wb, p)
      v == DigitRun(wb, AfterSign(wb, q), 0).val
  IN IF IsNegative(wb, q) THEN -v ELSE v

\* Conversion of an int to uint16_t (bluetooth.c:71, 100, 101).
ToUint16(v) == v % 65536

\* A decimal value num/den, den a power of ten.
Rat(n, d) == [num |-> n, den |-> d]

RatEq(a, b) == a.num * b.den = b.num * a.den

RatLe(a, b) == a.num * b.den <= b.num * a.den

\* atof(&write_buffer[p]) for the decimal notation sign digits [. digits]; the
\* double is modelled by the exact decimal it is nearest to (a write holds at
\* most 15 payload characters, fewer digits than a double tells apart).
Atof(wb, p) ==
  LET q == SkipSpace(wb, p)
      ip == DigitRun(wb, AfterSign(wb, q), 0)
      hasdot == ip.end < RECEIVE_BUFF_SIZE /\ wb[ip.end] = Ord(".")
      fp == IF hasdot THEN DigitRun(wb, ip.end + 1, 0) ELSE [val |-> 0, end |-> ip.end]
      den == IF hasdot THEN 10 ^ (fp.end - (ip.end + 1)) ELSE 1
      n == ip.val * den + fp.val
  IN Rat(IF IsNegative(wb, q) THEN -n ELSE n, den)

\* include/dds.h is not part of the sources at hand: the range of the waveform
\* amplification is the collaborator's (it contains the default of -1, main.c:140).
MIN_DDS_AMPLIFICATION == Rat(-10, 1)

MAX_DDS_AMPLIFICATION == Rat(10, 1)

Call(fn, args) == [fn |-> fn, args |-> args]

NoEffect == [calls |-> <<>>, pga |-> NoPair, digipot |-> NoPair, on |-> FALSE, start |-> FALSE]

\* The command tokens of bluetooth.c:70-184.
Tok_SDDSc == Bytes(<<"S", "D", "D", "S", ":">>)

Tok_DDSAc == Bytes(<<"D", "D", "S", "A", ":">>)

Tok_DDSOc == Bytes(<<"D", "D", "S", "O", ":">>)

Tok_SCOc == Bytes(<<"S", "C", "O", ":">>)

Tok_SCAc == Bytes(<<"S", "C", "A", ":">>)

Tok_IDDS == Bytes(<<"I", "D", "D", "S">>)

Tok_DDSOFF == Bytes(<<"D", "D", "S", "O", "F", "F">>)

\* An ON test that looks at the first character alone.
Tok_ON_FirstChar == Bytes(<<"O">>)

Tok_ON == Bytes(<<"O", "N">>)

Tok_START == Bytes(<<"S", "T", "A", "R", "T">>)

Tok_OFF == Bytes(<<"O", "F", "F">>)

\* The branch of write_custom_value taken for the buffer wb, as its effects:
\* the collaborator calls, the settings stored and the flags set.
Dispatch(wb) ==
  IF Match(wb, 0, Tok_SDDSc)
    THEN [NoEffect EXCEPT !.calls = <<Call("changeDDSVal", <<ToUint16(Atoi(wb, 5))>>)>>]
  ELSE IF Match(wb, 0, Tok_DDSAc)
    THEN LET amplification == Atof(wb, 5)
         IN IF RatLe(MIN_DDS_AMPLIFICATION, amplification)
               /\ RatLe(amplification, MAX_DDS_AMPLIFICATION)
              THEN [NoEffect EXCEPT
                      !.calls = <<Call("set_dds_amplification", <<amplification>>)>>]
              ELSE NoEffect
  ELSE IF Match(wb, 0, Tok_DDSOc)
    THEN LET offset == Atof(wb, 5)
         IN IF RatLe(Rat(-33, 10), offset) /\ RatLe(offset, Rat(33, 10))
              THEN [NoEffect EXCEPT !.calls = <<Call("set_dds_offset", <<offset>>)>>]
              ELSE NoEffect
  ELSE IF wb[0] = Ord("P") /\ wb[2] = Ord(":")
    THEN LET number == ToUint16(wb[1] - Ord("0"))
             setting == ToUint16(Atoi(wb, 3))
         IN IF number >= 1 /\ number <= 2 /\ setting >= 0 /\ setting <= 7
              THEN [NoEffect EXCEPT
                      !.pga = <<number, setting>>,
                      !.calls = <<Call("configure_pga", <<number, setting>>)>>]
              ELSE NoEffect
  ELSE IF wb[0] = Ord("D") /\ wb[2] = Ord(":")
    THEN LET channel == wb[1] - Ord("0")
             value == Atoi(wb, 3)
         IN IF channel >= 0 /\ channel <= 3 /\ value >= 0 /\ value <= 255
              THEN [NoEffect EXCEPT
                      !.digipot = <<channel, value>>,
                      !.calls = <<Call("digipot_wiper_set", <<channel, value>>)>>]
              ELSE NoEffect
  ELSE IF wb[0] = Ord("M") /\ wb[1] = Ord(":") /\ wb[2] >= Ord("0") /\ wb[2] <= Ord("7")
    THEN LET setting == wb[2] - Ord("0")
         IN IF setting >= 0 /\ setting <= 7
              THEN [NoEffect EXCEPT !.calls = <<Call("set_mux", <<setting>>)>>]
              ELSE NoEffect
  ELSE IF Match(wb, 0, Tok_SCOc)
    THEN LET offset == Atof(wb, 4)
         IN IF RatLe(Rat(-33, 10), offset) /\ RatLe(offset, Rat(33, 10))
              THEN [NoEffect EXCEPT
                      !.calls = <<Call("set_signal_chain_offset", <<offset>>)>>]
              ELSE NoEffect
  ELSE IF Match(wb, 0, Tok_SCAc)
    THEN LET gain == Atof(wb, 4)
         IN IF RatLe(Rat(1, 1), gain) /\ RatLe(gain, Rat(7000, 1))
              THEN [NoEffect EXCEPT
                      !.calls = <<Call("set_signal_chain_amplification", <<gain>>)>>]
              ELSE NoEffect
  ELSE IF Match(wb, 0, Tok_IDDS)
    THEN [NoEffect EXCEPT !.calls = <<Call("start_dds", <<1000>>)>>]
  ELSE IF Match(wb, 0, Tok_DDSOFF)
    THEN [NoEffect EXCEPT !.calls = <<Call("dds_sleep", <<>>)>>]
  ELSE IF Match(wb, 0, Tok_ON)
    THEN [NoEffect EXCEPT !.on = TRUE, !.calls = <<Call("power_up", <<>>)>>]
  ELSE IF Match(wb, 0, Tok_START)
    THEN [NoEffect EXCEPT !.start = TRUE]
  ELSE IF Match(wb, 0, Tok_OFF)
    THEN [NoEffect EXCEPT !.calls = <<Call("power_down", <<>>)>>]
  ELSE NoEffect

\* The write callback for a write of the bytes data (len = Len(data)).
WriteCustomValue(data) ==
  \E wb \in {LoadWrite(write_buffer, data)} :
  \E e \in {Dispatch(wb)} :
     /\ ble_ready
     /\ write_buffer' = wb
     /\ last_calls' = e.calls
     /\ pga_number' = IF e.pga = NoPair THEN pga_number ELSE e.pga[1]
     /\ pga_setting' = IF e.pga = NoPair THEN pga_setting ELSE e.pga[2]
     /\ digipot_channel' = IF e.digipot = NoPair THEN digipot_channel ELSE e.digipot[1]
     /\ digipot_setting' = IF e.digipot = NoPair THEN digipot_setting ELSE e.digipot[2]
     /\ bt_on_received' = (e.on \/ bt_on_received)
     /\ bt_start_received' = (e.start \/ bt_start_received)
     /\ on_seen' = (e.on \/ on_seen)
     /\ start_seen' = (e.start \/ start_seen)
     /\ last_write' = data
     /\ UNCHANGED <<ble_ready, gateVars, uartVars, fabricVars, stageVars, wkVars,
                    connVars, histVars>>

(***************************************************************************)
(* Orchestration flow: main (main.c:158-204) with wait_for_on_command      *)
(* (main.c:117-133) and wait_for_start_command (main.c:102-114).           *)
(***************************************************************************)
\* bool ble_on_received(void), bool ble_start_received(void)
ble_on_received == bt_on_received

ble_start_received == bt_start_received

notMain == <<uartVars, bleCmdVars, callVars, seenVars, fabricVars, stageVars,
             wkVars, connVars, histVars>>

\* main.c:160-169: the UART callback is set and the wireless stack started.
MainBoot ==
  /\ main_pc = "boot"
  /\ main_pc' = "on_enable"
  /\ ble_ready' = TRUE
  /\ UNCHANGED <<main_tmp, start_received, on_recieved, uartVars, write_buffer,
                 digipot_channel, digipot_setting, pga_number, pga_setting,
                 bt_start_received, bt_on_received, callVars, seenVars, fabricVars,
                 stageVars, wkVars, connVars, histVars>>

\* uart_rx_enable(...) at the head of either wait function (main.c:106, 121).
MainRxEnable ==
  /\ main_pc \in {"on_enable", "start_enable"}
  /\ main_pc' = IF main_pc = "on_enable" THEN "on_test" ELSE "start_test"
  /\ uart_rx_enabled' = TRUE
  /\ UNCHANGED <<main_tmp, start_received, on_recieved, command_buffer, cmd_index,
                 uart_line, uart_pos, bleCmdVars, callVars, seenVars, fabricVars,
                 stageVars, wkVars, connVars, histVars>>

\* while (!on_recieved)
WaitOnTest ==
  /\ main_pc = "on_test"
  /\ main_pc' = IF on_recieved THEN "powerup" ELSE "on_call"
  /\ UNCHANGED <<main_tmp, start_received, on_recieved, notMain>>

\* the call ble_on_received() of  on_recieved = ble_on_received();
WaitOnCall ==
  /\ main_pc = "on_call"
  /\ main_tmp' = ble_on_received
  /\ main_pc' = "on_store"
  /\ UNCHANGED <<start_received, on_recieved, notMain>>

\* the store of  on_recieved = ble_on_received();
WaitOnStore ==
  /\ main_pc = "on_store"
  /\ on_recieved' = main_tmp
  /\ main_pc' = "on_sleep"
  /\ UNCHANGED <<main_tmp, start_received, notMain>>

\* k_msleep(10); if (on_recieved) LOG_INF(...);
WaitOnSleep ==
  /\ main_pc = "on_sleep"
  /\ main_pc' = "on_test"
  /\ UNCHANGED <<main_tmp, start_received, on_recieved, notMain>>

\* gpio_init(); spi_init(); k_msleep(1000);  then saadc_start() is entered
MainPowerUp ==
  /\ main_pc = "powerup"
  /\ main_pc' = "cfg_timer"
  /\ UNCHANGED <<main_tmp, start_received, on_recieved, notMain>>

\* config_default_settings() (main.c:136-144)
MainDefaults ==
  /\ main_pc = "defaults"
  /\ main_pc' = "start_enable"
  /\ last_calls' = << Call("set_mux", <<0>>),
                      Call("set_dds_offset", <<Rat(-341, 1000)>>),
                      Call("set_dds_amplification", <<Rat(-1, 1)>>),
                      Call("start_dds", <<1000>>),
                      Call("set_signal_chain_amplification", <<Rat(2, 1)>>),
                      Call("set_signal_chain_offset", <<Rat(6, 10)>> ) >>
  /\ UNCHANGED <<main_tmp, start_received, on_recieved, uartVars, bleCmdVars,
                 last_write, seenVars, fabricVars, stageVars, wkVars,
                 connVars, histVars>>

\* while (!start_received)
WaitStartTest ==
  /\ main_pc = "start_test"
  /\ main_pc' = IF start_received THEN "spawn" ELSE "start_call"
  /\ UNCHANGED <<main_tmp, start_received, on_recieved, notMain>>

\* the call ble_start_received() of  start_received = ble_start_received();
WaitStartCall ==
  /\ main_pc = "start_call"
  /\ main_tmp' = ble_start_received
  /\ main_pc' = "start_store"
  /\ UNCHANGED <<start_received, on_recieved, notMain>>

\* the store of  start_received = ble_start_received();
WaitStartStore ==
  /\ main_pc = "start_store"
  /\ start_received' = main_tmp
  /\ main_pc' = "start_sleep"
  /\ UNCHANGED <<main_tmp, on_recieved, notMain>>

\* k_msleep(10);
WaitStartSleep ==
  /\ main_pc = "start_sleep"
  /\ main_pc' = "start_test"
  /\ UNCHANGED <<main_tmp, start_received, on_recieved, notMain>>

\* k_thread_create(... uart_thread ...); then main sleeps forever.
MainSpawn ==
  /\ main_pc = "spawn"
  /\ main_pc' = "running"
  /\ UNCHANGED <<main_tmp, start_received, on_recieved, notMain>>

(***************************************************************************)
(* Trigger fabric: saadc_start (adc.c:311-316) and the three configure     *)
(* functions it calls one after the other.  Each driver call reports success or  *)
(* an error (ok drawn from results); on an error the configure function    *)
(* logs and returns, and saadc_start goes on with the next one.            *)
(***************************************************************************)
notFabric == <<main_tmp, start_received, on_recieved, uartVars, bleCmdVars, callVars,
               seenVars, stageVars, wkVars, connVars, histVars>>

\* A configure_timer that also starts the timer it has set up.
ConfigureTimer_Enabling(results) ==
  /\ main_pc = "cfg_timer"
  /\ \E ok \in results :
       /\ timer_inited' = ok
       /\ timer_enabled' = ok
       /\ init_failed' = (init_failed \/ ~ok)
  /\ main_pc' = "cfg_saadc_init"
  /\ UNCHANGED <<saadc_state, hw_primary, hw_secondary, hw_started,
                 ppi_allocated, ppi_enabled, work_inited, notFabric>>

\* configure_timer (adc.c:107-120)
ConfigureTimer(results) ==
  /\ main_pc = "cfg_timer"
  /\ \E ok \in results :
       /\ timer_inited' = ok
       /\ init_failed' = (init_failed \/ ~ok)
  /\ main_pc' = "cfg_saadc_init"
  /\ UNCHANGED <<timer_enabled, saadc_state, hw_primary, hw_secondary, hw_started,
                 ppi_allocated, ppi_enabled, work_inited, notFabric>>

\* configure_saadc, nrfx_saadc_init and irq_enable (adc.c:215-224)
SaadcInit(results) ==
  /\ main_pc = "cfg_saadc_init"
  /\ \E ok \in results :
       /\ saadc_state' = IF ok THEN "idle" ELSE saadc_state
       /\ init_failed' = (init_failed \/ ~ok)
       /\ main_pc' = IF ok THEN "cfg_channels" ELSE "cfg_ppi_alloc1"
  /\ UNCHANGED <<timer_inited, timer_enabled, hw_primary, hw_secondary, hw_started,
                 ppi_allocated, ppi_enabled, work_inited, notFabric>>

\* configure_saadc, nrfx_saadc_channels_config (adc.c:228-233)
SaadcChannelsConfig(results) ==
  /\ main_pc = "cfg_channels"
  /\ \E ok \in results :
       /\ init_failed' = (init_failed \/ ~ok)
       /\ main_pc' = IF ok THEN "cfg_adv" ELSE "cfg_ppi_alloc1"
  /\ UNCHANGED <<timer_inited, timer_enabled, saadc_state, hw_primary, hw_secondary,
                 hw_started, ppi_allocated, ppi_enabled, work_inited, notFabric>>

\* configure_saadc, nrfx_saadc_advanced_mode_set (adc.c:236-244)
SaadcAdvancedModeSet(results) ==
  /\ main_pc = "cfg_adv"
  /\ \E ok \in results :
       /\ saadc_state' = IF ok THEN "adv" ELSE saadc_state
       /\ init_failed' = (init_failed \/ ~ok)
       /\ main_pc' = IF ok THEN "cfg_buf0" ELSE "cfg_ppi_alloc1"
  /\ UNCHANGED <<timer_inited, timer_enabled, hw_primary, hw_secondary, hw_started,
                 ppi_allocated, ppi_enabled, work_inited, notFabric>>

\* configure_saadc, nrfx_saadc_buffer_set(saadc_sample_buffer[0]) (adc.c:247-251):
\* the first buffer set is the one the converter fills first.
SaadcBufferSet0(results) ==
  /\ main_pc = "cfg_buf0"
  /\ \E ok \in results :
       /\ hw_primary' = IF ok THEN 0 ELSE hw_primary
       /\ saadc_state' = IF ok THEN "sample" ELSE saadc_state
       /\ init_failed' = (init_failed \/ ~ok)
       /\ main_pc' = IF ok THEN "cfg_buf1" ELSE "cfg_ppi_alloc1"
  /\ UNCHANGED <<timer_inited, timer_enabled, hw_secondary, hw_started,
                 ppi_allocated, ppi_enabled, work_inited, notFabric>>

\* configure_saadc, nrfx_saadc_buffer_set(saadc_sample_buffer[1]) (adc.c:252-256):
\* the second buffer set is queued as the next destination.
SaadcBufferSet1(results) ==
  /\ main_pc = "cfg_buf1"
  /\ \E ok \in results :
       /\ hw_secondary' = IF ok THEN 1 ELSE hw_secondary
       /\ init_failed' = (init_failed \/ ~ok)
       /\ main_pc' = IF ok THEN "cfg_trigger" ELSE "cfg_ppi_alloc1"
  /\ UNCHANGED <<timer_inited, timer_enabled, saadc_state, hw_primary, hw_started,
                 ppi_allocated, ppi_enabled, work_inited, notFabric>>

\* configure_saadc, nrfx_saadc_mode_trigger (adc.c:260-264): the converter is
\* started and will raise its STARTED interrupt.
SaadcModeTrigger(results) ==
  /\ main_pc = "cfg_trigger"
  /\ \E ok \in results :
       /\ hw_started' = (ok \/ hw_started)
       /\ init_failed' = (init_failed \/ ~ok)
       /\ main_pc' = IF ok THEN "cfg_work_init" ELSE "cfg_ppi_alloc1"
  /\ UNCHANGED <<timer_inited, timer_enabled, saadc_state, hw_primary, hw_secondary,
                 ppi_allocated, ppi_enabled, work_inited, notFabric>>

\* A configure_saadc that returns without initialising the work item.
WorkInit_Skipped ==
  /\ main_pc = "cfg_work_init"
  /\ main_pc' = "cfg_ppi_alloc1"
  /\ UNCHANGED <<timer_inited, timer_enabled, saadc_state, hw_primary, hw_secondary,
                 hw_started, ppi_allocated, ppi_enabled, work_inited, init_failed,
                 notFabric>>

\* configure_saadc, k_work_init (adc.c:267)
WorkInit ==
  /\ main_pc = "cfg_work_init"
  /\ work_inited' = TRUE
  /\ main_pc' = "cfg_ppi_alloc1"
  /\ UNCHANGED <<timer_inited, timer_enabled, saadc_state, hw_primary, hw_secondary,
                 hw_started, ppi_allocated, ppi_enabled, init_failed, notFabric>>

\* configure_ppi, the two nrfx_gppi_channel_alloc calls (adc.c:283-293)
PpiChannelAlloc(results) ==
  /\ main_pc \in {"cfg_ppi_alloc1", "cfg_ppi_alloc2"}
  /\ \E ok \in results :
       /\ ppi_allocated' = IF ok THEN ppi_allocated + 1 ELSE ppi_allocated
       /\ init_failed' = (init_failed \/ ~ok)
       /\ main_pc' = IF ~ok THEN "defaults"
                     ELSE IF main_pc = "cfg_ppi_alloc1" THEN "cfg_ppi_alloc2"
                     ELSE "cfg_ppi_en1"
  /\ UNCHANGED <<timer_inited, timer_enabled, saadc_state, hw_primary, hw_secondary,
                 hw_started, ppi_enabled, work_inited, notFabric>>

\* configure_ppi, endpoints set up and the sample channel (timer compare ->
\* converter SAMPLE) enabled (adc.c:296-306)
PpiEnableSample ==
  /\ main_pc = "cfg_ppi_en1"
  /\ ppi_enabled' = ppi_enabled \cup {"sample"}
  /\ main_pc' = "cfg_ppi_en2"
  /\ UNCHANGED <<timer_inited, timer_enabled, saadc_state, hw_primary, hw_secondary,
                 hw_started, ppi_allocated, work_inited, init_failed, notFabric>>

\* configure_ppi, the start channel (converter END -> converter START) enabled
\* (adc.c:307); saadc_start returns.
PpiEnableStart ==
  /\ main_pc = "cfg_ppi_en2"
  /\ ppi_enabled' = ppi_enabled \cup {"start"}
  /\ main_pc' = "defaults"
  /\ UNCHANGED <<timer_inited, timer_enabled, saadc_state, hw_primary, hw_secondary,
                 hw_started, ppi_allocated, work_inited, init_failed, notFabric>>

(***************************************************************************)
(* Double-buffered sampler: saadc_event_handler (adc.c:127-196), run by    *)
(* the converter driver in interrupt context.  The driver keeps the buffer *)
(* being filled (hw_primary) and the one queued next (hw_secondary); it    *)
(* asks for a buffer (BUF_REQ) at a STARTED interrupt when none is queued, *)
(* and at an END interrupt reports the filled buffer (DONE) and moves the  *)
(* queued one in.                                                          *)
(***************************************************************************)
\* Sample values: the extremes of int16_t, both signs, both bytes in use.
SampleValues == <<-32768, -1, 255, 256, 32767, 0, -256, 1>>

\* What the converter has written to a sample block at its k-th completion
\* (any two of the completions followed differ at every index).
SampleBlock(k) ==
  [i \in 0..(SAADC_BUFFER_SIZE - 1) |->
     SampleValues[((i + 3 * k) % Len(SampleValues)) + 1]]

\* The sizes a completion reports: the driver reports the size the buffer was
\* set with (SAADC_BUFFER_SIZE); a short and an oversized report exercise the
\* handler's own handling of n.
DoneSizes == {SAMPLES_PER_NOTIFY + 1, SAADC_BUFFER_SIZE, SAADC_BUFFER_SIZE + 1}

\* The variant left commented out at adc.c:142: always the first block.
NextBuffer_First(cur) == 0

\* A rotation that always hands out the second block.
NextBuffer_Second(cur) == 1

\* saadc_sample_buffer[(saadc_current_buffer++) % 2]: the index used (adc.c:141).
\* (The uint32_t counter stays far from its wrap within MaxDone completions.)
NextBuffer(cur) == cur % 2

\* A handler that stages nothing of an oversized report.
ClampLen_Discard(n) == IF n > SAADC_BUFFER_SIZE THEN 0 ELSE n

\* if (n > SAADC_BUFFER_SIZE) n = SAADC_BUFFER_SIZE; (adc.c:182-184)
ClampLen(n) == IF n > SAADC_BUFFER_SIZE THEN SAADC_BUFFER_SIZE ELSE n

\* A staging that keeps a block still waiting for the deferred task.
CopyToStage_KeepPending(slot, block, n) ==
  IF work_pending THEN slot
  ELSE [i \in 0..(SAADC_BUFFER_SIZE - 1) |-> IF i < n THEN block[i] ELSE slot[i]]

\* memcpy(g_ble_buf, buf, n * sizeof(int16_t)) (adc.c:186)
CopyToStage(slot, block, n) ==
  [i \in 0..(SAADC_BUFFER_SIZE - 1) |-> IF i < n THEN block[i] ELSE slot[i]]

Prefix(block, n) == [i \in 1..n |-> block[i - 1]]

\* A submission that is lost while the handler of the item runs.
k_work_submit_IdleOnly(pending, running) == IF running THEN pending ELSE TRUE

\* k_work_submit(&saadc_ble_work) (adc.c:189): whether the item is queued
\* afterwards.  An item already queued stays queued once; an item whose handler
\* is running is queued to run again.
k_work_submit(pending, running) == TRUE

notSampler == <<gateVars, uartVars, bleCmdVars, callVars, seenVars, wkVars, connVars>>

\* STARTED interrupt.  At the first one the driver raises READY (adc.c:132-136:
\* the timer is enabled); when no buffer is queued it raises BUF_REQ
\* (adc.c:138-147: the next rotating buffer is queued).
SaadcStartedIrq ==
  /\ hw_started
  /\ saadc_state \in {"sample", "started"}
  /\ hw_started' = FALSE
  /\ saadc_state' = "started"
  /\ timer_enabled' = (saadc_state = "sample" \/ timer_enabled)
  /\ IF hw_secondary = NONE
       THEN /\ hw_secondary' = NextBuffer(saadc_current_buffer)
            /\ saadc_current_buffer' = saadc_current_buffer + 1
       ELSE UNCHANGED <<hw_secondary, saadc_current_buffer>>
  /\ UNCHANGED <<timer_inited, hw_primary, ppi_allocated, ppi_enabled, work_inited,
                 init_failed, g_ble_buf, g_ble_len, work_pending, histVars, notSampler>>

\* END interrupt: the timer has clocked a whole block through the sample
\* channel.  The driver raises DONE for the filled buffer with reported size n
\* (adc.c:149-191: diagnostics, staging, k_work_submit), then moves the queued
\* buffer in; the start channel restarts the converter, which otherwise stays
\* stopped.
SaadcEndIrq ==
  /\ saadc_state = "started"
  /\ ~hw_started
  /\ hw_primary # NONE
  /\ timer_inited /\ timer_enabled
  /\ "sample" \in ppi_enabled
  /\ done_count < MaxDone
  /\ \E size \in DoneSizes :
       LET n == ClampLen(size)
           block == SampleBlock(done_count)
       IN /\ g_ble_buf' = CopyToStage(g_ble_buf, block, n)
          /\ g_ble_len' = n
          /\ last_block' = [k |-> done_count, size |-> size, len |-> n,
                          samples |-> Prefix(block, n)]
          /\ staged_lens' = Append(staged_lens, n)
  /\ work_pending' = k_work_submit(work_pending, wk_pc # "idle")
  /\ hw_primary' = hw_secondary
  /\ hw_secondary' = NONE
  /\ hw_started' = (hw_secondary # NONE /\ "start" \in ppi_enabled)
  /\ saadc_state' = IF hw_secondary # NONE /\ "start" \in ppi_enabled
                       THEN saadc_state ELSE "stalled"
  /\ done_count' = done_count + 1
  /\ last_done_buf' = hw_primary
  /\ stages_since_run' = stages_since_run + 1
  /\ run_dirty' = (wk_pc # "idle" \/ run_dirty)
  /\ UNCHANGED <<timer_inited, timer_enabled, ppi_allocated, ppi_enabled,
                 work_inited, init_failed, saadc_current_buffer, run_stages, run_block,
                 run_chunks, run_notified, notSampler>>

(***************************************************************************)
(* Staging and handoff: the deferred task saadc_ble_work_handler           *)
(* (adc.c:57-88) on the system work queue, and the transport               *)
(* ble_send_adc_chunk (bluetooth.c:261-274) it calls.                      *)
(***************************************************************************)
\* payload[2*i + 0] = (uint8_t)(sample & 0xFF) (adc.c:77)
LowByte(sample) == sample % 256

\* A high byte taken by a division that truncates toward zero.
HighByte_Truncating(sample) ==
  IF sample < 0 THEN (0 - ((0 - sample) \div 256)) % 256 ELSE (sample \div 256) % 256

\* payload[2*i + 1] = (uint8_t)((sample >> 8) & 0xFF) (adc.c:78)
HighByte(sample) == (sample \div 256) % 256

\* g_ble_buf[k]; an index past the array reads whatever lies behind it.
StageAt(k) == IF k < SAADC_BUFFER_SIZE THEN g_ble_buf[k] ELSE 0

\* A chunk size that ignores what remains.
ChunkSamples_Full(len, i) == SAMPLES_PER_NOTIFY

\* MIN(remaining, (size_t)SAMPLES_PER_NOTIFY) with remaining = len - idx in
\* size_t: when len < idx the difference wraps to len - idx + 2^32, far above
\* SAMPLES_PER_NOTIFY.
ChunkSamples(len, i) ==
  IF len >= i THEN Min(len - i, SAMPLES_PER_NOTIFY) ELSE SAMPLES_PER_NOTIFY

\* A send test that looks at the subscription alone.
MayNotify_SubscribedOnly == notify_enabled

\* if (!ble_connected || !notify_enabled) return;  (bluetooth.c:266-268)
MayNotify == ble_connected /\ notify_enabled

notWork == <<gateVars, uartVars, bleCmdVars, callVars, seenVars, fabricVars, connVars>>

\* The work queue takes the queued item and enters the handler: idx = 0.
WorkStart ==
  /\ work_pending
  /\ wk_pc = "idle"
  /\ work_pending' = FALSE
  /\ wk_pc' = "test"
  /\ idx' = 0
  /\ run_stages' = stages_since_run
  /\ run_block' = last_block
  /\ stages_since_run' = 0
  /\ run_dirty' = FALSE
  /\ run_chunks' = <<>>
  /\ run_notified' = <<>>
  /\ UNCHANGED <<wk_len, chunk_samples, wk_i, payload, saadc_current_buffer,
                 g_ble_buf, g_ble_len, done_count, last_done_buf, last_block, staged_lens,
                 notWork>>

\* while (idx < g_ble_len); the handler returns when the test fails.
WorkTest ==
  /\ wk_pc = "test"
  /\ wk_len' = g_ble_len
  /\ wk_pc' = IF idx < g_ble_len THEN "rem" ELSE "idle"
  /\ UNCHANGED <<idx, chunk_samples, wk_i, payload, stageVars, histVars, notWork>>

\* remaining = g_ble_len - idx; chunk_samples = MIN(remaining, SAMPLES_PER_NOTIFY).
\* g_ble_len is not volatile: the build may read it again here or reuse the value
\* read by the loop test.
WorkRemaining ==
  /\ wk_pc = "rem"
  /\ \E len \in {wk_len, g_ble_len} :
       chunk_samples' = ChunkSamples(len, idx)
  /\ wk_i' = 0
  /\ payload' = <<>>
  /\ wk_pc' = "copy"
  /\ UNCHANGED <<idx, wk_len, stageVars, histVars, notWork>>

\* one turn of  for (i = 0; i < chunk_samples; i++)  (adc.c:73-79)
WorkCopy ==
  /\ wk_pc = "copy"
  /\ wk_i < chunk_samples
  /\ LET sample == StageAt(idx + wk_i)
     IN payload' = payload \o <<LowByte(sample), HighByte(sample)>>
  /\ wk_i' = wk_i + 1
  /\ UNCHANGED <<wk_pc, idx, wk_len, chunk_samples, stageVars, histVars, notWork>>

\* ble_send_adc_chunk(payload, 2 * chunk_samples); idx += chunk_samples;
WorkSend ==
  /\ wk_pc = "copy"
  /\ wk_i = chunk_samples
  /\ run_chunks' = Append(run_chunks, payload)
  /\ run_notified' = IF MayNotify THEN Append(run_notified, payload) ELSE run_notified
  /\ idx' = idx + chunk_samples
  /\ wk_pc' = "test"
  /\ UNCHANGED <<wk_len, chunk_samples, wk_i, payload, stageVars, done_count,
                 last_done_buf, last_block, staged_lens, stages_since_run, run_stages,
                 run_block, run_dirty, notWork>>

(***************************************************************************)
(* Connection state: connected, disconnected (bluetooth.c:236-249) and the *)
(* subscription callback adc_ccc_cfg_changed (bluetooth.c:204-208).        *)
(***************************************************************************)
BT_GATT_CCC_NOTIFY == 1

notConn == <<gateVars, uartVars, bleCmdVars, callVars, seenVars, fabricVars,
             stageVars, wkVars, histVars>>

\* connected and disconnected are static functions of bluetooth.c that no
\* BT_CONN_CB_DEFINE and no bt_conn_cb_register names: the stack has no
\* reference to them and does not call them.
ConnCallbacksRegistered == FALSE

\* A peer connects (err = 0) or fails to; the stack runs the registered
\* connection callbacks: connected(conn, err).
Connected ==
  /\ ble_ready
  /\ ~link_up
  /\ \E err \in {0, 1} :
       /\ link_up' = (err = 0)
       /\ ble_connected' =
            IF ConnCallbacksRegistered /\ err = 0 THEN TRUE ELSE ble_connected
  /\ UNCHANGED <<notify_enabled, peer_sub, notConn>>

\* The peer is gone; the stack runs the registered connection callbacks:
\* disconnected(conn, reason).  The stack may also report the subscription
\* lost with the connection through adc_ccc_cfg_changed(attr, 0).
Disconnected ==
  /\ ble_ready
  /\ link_up
  /\ link_up' = FALSE
  /\ peer_sub' = FALSE
  /\ ble_connected' = IF ConnCallbacksRegistered THEN FALSE ELSE ble_connected
  /\ \E cleared \in BOOLEAN :
       notify_enabled' =
         IF ConnCallbacksRegistered \/ cleared THEN FALSE ELSE notify_enabled
  /\ UNCHANGED notConn

\* The connected peer writes the configuration descriptor:
\* adc_ccc_cfg_changed(attr, value): 0 none, 1 notify, 2 indicate
CccCfgChanged ==
  /\ ble_ready
  /\ link_up
  /\ \E value \in {0, 1, 2} :
       /\ notify_enabled' = (value = BT_GATT_CCC_NOTIFY)
       /\ peer_sub' = (value = BT_GATT_CCC_NOTIFY)
  /\ UNCHANGED <<ble_connected, link_up, notConn>>

(***************************************************************************)
(* Initial state: the static initialisers of the three files.              *)
(***************************************************************************)
EmptySlot == [k |-> -1, size |-> 0, len |-> 0, samples |-> <<>>]

InitGate ==
  /\ main_pc = "boot"
  /\ main_tmp = FALSE
  /\ start_received = FALSE
  /\ on_recieved = FALSE

InitUart ==
  /\ command_buffer = [i \in 0..(COMMAND_BUFFER_SIZE - 1) |-> 0]
  /\ cmd_index = 0
  /\ uart_rx_enabled = FALSE
  /\ uart_line = 0
  /\ uart_pos = 0

InitBleCmd ==
  /\ ble_ready = FALSE
  /\ write_buffer = [i \in 0..(RECEIVE_BUFF_SIZE - 1) |-> 0]
  /\ digipot_channel = 0
  /\ digipot_setting = 0
  /\ pga_number = 0
  /\ pga_setting = 0
  /\ bt_start_received = FALSE
  /\ bt_on_received = FALSE
  /\ last_calls = <<>>
  /\ last_write = <<>>
  /\ on_seen = FALSE
  /\ start_seen = FALSE

InitFabric ==
  /\ timer_inited = FALSE
  /\ timer_enabled = FALSE
  /\ saadc_state = "uninit"
  /\ hw_primary = NONE
  /\ hw_secondary = NONE
  /\ hw_started = FALSE
  /\ ppi_allocated = 0
  /\ ppi_enabled = {}
  /\ work_inited = FALSE
  /\ init_failed = FALSE

InitStage ==
  /\ saadc_current_buffer = 0
  /\ g_ble_buf = [i \in 0..(SAADC_BUFFER_SIZE - 1) |-> 0]
  /\ g_ble_len = 0
  /\ work_pending = FALSE

InitWork ==
  /\ wk_pc = "idle"
  /\ idx = 0
  /\ wk_len = 0
  /\ chunk_samples = 0
  /\ wk_i = 0
  /\ payload = <<>>

InitConn ==
  /\ ble_connected = FALSE
  /\ notify_enabled = FALSE
  /\ link_up = FALSE
  /\ peer_sub = FALSE

InitHist ==
  /\ done_count = 0
  /\ last_done_buf = NONE
  /\ last_block = EmptySlot
  /\ staged_lens = <<>>
  /\ stages_since_run = 0
  /\ run_stages = 0
  /\ run_block = EmptySlot
  /\ run_dirty = FALSE
  /\ run_chunks = <<>>
  /\ run_notified = <<>>

Init ==
  /\ InitGate /\ InitUart /\ InitBleCmd /\ InitFabric
  /\ InitStage /\ InitWork /\ InitConn /\ InitHist

(***************************************************************************)
(* The command and phase gate: main, the UART callback and the wireless    *)
(* write callback.  The converter's STARTED interrupt is followed; block   *)
(* completions and the deferred task, which share no variable with the     *)
(* gate, are followed by SpecAdc.                                          *)
(***************************************************************************)
\* The wireless writes the peer sends to the gate.
GateWrites ==
  { Bytes(<<"O", "N">>),
    Bytes(<<"S", "T", "A", "R", "T">>),
    Bytes(<<"O", "F", "F">>) }

BleWriteGate == \E data \in GateWrites : WriteCustomValue(data)

WaitForOnCommand == WaitOnTest \/ WaitOnCall \/ WaitOnStore \/ WaitOnSleep

WaitForStartCommand == WaitStartTest \/ WaitStartCall \/ WaitStartStore \/ WaitStartSleep

\* saadc_start with the driver calls reporting one of results (TRUE: success).
SaadcStart(results) ==
  \/ ConfigureTimer(results)
  \/ SaadcInit(results) \/ SaadcChannelsConfig(results) \/ SaadcAdvancedModeSet(results)
  \/ SaadcBufferSet0(results) \/ SaadcBufferSet1(results) \/ SaadcModeTrigger(results)
  \/ WorkInit
  \/ PpiChannelAlloc(results) \/ PpiEnableSample \/ PpiEnableStart

\* main with every driver call of saadc_start succeeding (failures: SpecAdc).
Main ==
  \/ MainBoot \/ MainRxEnable \/ WaitForOnCommand \/ MainPowerUp
  \/ SaadcStart({TRUE}) \/ MainDefaults \/ WaitForStartCommand \/ MainSpawn

NextGate == Main \/ UartChar \/ BleWriteGate \/ SaadcStartedIrq

Spec == Init /\ [][NextGate]_vars

\* The polling loops keep being scheduled (k_msleep returns).
FairSpec == Spec /\ WF_vars(Main)

(***************************************************************************)
(* Claims about the command and phase gate.                                *)
(***************************************************************************)
\* The gate's observers: true if either channel has signalled the command.
PowerRequested == on_recieved \/ ble_on_received

StartRequested == start_received \/ ble_start_received

WaitOnPcs == {"on_test", "on_call", "on_store", "on_sleep"}

WaitStartPcs == {"start_test", "start_call", "start_store", "start_sleep"}

\* C1 (command gating monotonicity): power requested is false until an ON
\* command has been received on the serial or the wireless channel and true
\* ever after; the same for start requested and START.  (on_seen and
\* start_seen never go back to false, so the equivalence states both halves.)
C1_GatingMonotone ==
  /\ on_seen <=> PowerRequested
  /\ start_seen <=> StartRequested

\* C2 (gate liveness): once ON has been received and the flow is in
\* wait_for_on_command, the flow eventually leaves it; the same for START and
\* wait_for_start_command.
C2_GateLiveness ==
  /\ (on_seen /\ main_pc \in WaitOnPcs) ~> (main_pc \notin WaitOnPcs)
  /\ (start_seen /\ main_pc \in WaitStartPcs) ~> (main_pc \notin WaitStartPcs)

(***************************************************************************)
(* The acquisition pipeline, from the call of saadc_start: the trigger     *)
(* fabric with failing driver calls, the sampler interrupts, the deferred  *)
(* task and the connection callbacks.  It starts where main enters         *)
(* saadc_start after an ON received on the wireless channel (a state Spec  *)
(* reaches); the gate's polling and command callbacks, which share no      *)
(* variable with the pipeline, are followed by Spec.                       *)
(***************************************************************************)
InitAdc ==
  /\ main_pc = "cfg_timer"
  /\ main_tmp = TRUE
  /\ start_received = FALSE
  /\ on_recieved = TRUE
  /\ command_buffer = [i \in 0..(COMMAND_BUFFER_SIZE - 1) |-> 0]
  /\ cmd_index = 0
  /\ uart_rx_enabled = TRUE
  /\ uart_line = 0
  /\ uart_pos = 0
  /\ ble_ready = TRUE
  /\ write_buffer = LoadWrite([i \in 0..(RECEIVE_BUFF_SIZE - 1) |-> 0], Tok_ON)
  /\ digipot_channel = 0
  /\ digipot_setting = 0
  /\ pga_number = 0
  /\ pga_setting = 0
  /\ bt_start_received = FALSE
  /\ bt_on_received = TRUE
  /\ last_calls = <<Call("power_up", <<>>)>>
  /\ last_write = Tok_ON
  /\ on_seen = TRUE
  /\ start_seen = FALSE
  /\ InitFabric /\ InitStage /\ InitWork /\ InitConn /\ InitHist

Sampler == SaadcStartedIrq \/ SaadcEndIrq

DeferredTask == WorkStart \/ WorkTest \/ WorkRemaining \/ WorkCopy \/ WorkSend

Connection == Connected \/ Disconnected \/ CccCfgChanged

NextAdc == SaadcStart(BOOLEAN) \/ Sampler \/ DeferredTask \/ Connection

SpecAdc == InitAdc /\ [][NextAdc]_vars

(***************************************************************************)
(* Properties of the sampling pipeline.                                    *)
(***************************************************************************)
RECURSIVE Concat(_)
Concat(seqs) == IF seqs = <<>> THEN <<>> ELSE Head(seqs) \o Concat(Tail(seqs))

\* Two bytes per sample, low byte first, of the 16-bit two's-complement value.
EncodeLE(samples) ==
  [j \in 1..(2 * Len(samples)) |->
     LET s == samples[(j + 1) \div 2]
         u == IF s < 0 THEN s + 65536 ELSE s
     IN IF j % 2 = 1 THEN u % 256 ELSE u \div 256]

\* Consecutive byte pairs read as little-endian signed 16-bit integers.
DecodeLE(bytes) ==
  [j \in 1..(Len(bytes) \div 2) |->
     LET u == bytes[2 * j - 1] + 256 * bytes[2 * j]
     IN IF u >= 32768 THEN u - 65536 ELSE u]

IsPrefix(a, b) == Len(a) <= Len(b) /\ \A j \in 1..Len(a) : a[j] = b[j]

\* The deferred task has run and returned.
RunComplete == wk_pc = "idle" /\ run_block.k >= 0

\* What the k-th completion staged.
StagedBlock(k) == Prefix(SampleBlock(k), staged_lens[k + 1])

C4_SingleBlockRun ==
  run_chunks # <<>> =>
    \E k \in 0..(done_count - 1) :
       /\ IsPrefix(Concat(run_chunks), EncodeLE(StagedBlock(k)))
       /\ wk_pc = "idle" => Concat(run_chunks) = EncodeLE(StagedBlock(k))

C7_SendStep == Len(run_chunks') = Len(run_chunks) + 1

\* C7: a chunk handed to the transport while there is no connection or the
\* peer has not subscribed is dropped (not transmitted, not kept for later), the
\* run goes on, nothing of the sampler changes, and every DONE event is staged
\* and submitted whatever the connection state.
C7_DropWhenUnsubscribed ==
  [][ /\ (C7_SendStep /\ ~(ble_connected /\ notify_enabled)) =>
           /\ run_notified' = run_notified
           /\ idx' = idx + chunk_samples
           /\ UNCHANGED <<stageVars, fabricVars>>
      /\ (run_notified' # run_notified) =>
           \/ run_notified' = <<>>
           \/ /\ C7_SendStep /\ ble_connected /\ notify_enabled
              /\ run_notified' = Append(run_notified, run_chunks'[Len(run_chunks')])
      /\ (done_count' # done_count) =>
           /\ work_pending'
           /\ g_ble_len' = last_block'.len
           /\ \A i \in 0..(g_ble_len' - 1) : g_ble_buf'[i] = last_block'.samples[i + 1]
    ]_vars

C7_Witness ==
  /\ RunComplete /\ ~run_dirty
  /\ Len(run_chunks) >= 2 /\ run_notified = <<>>
  /\ stages_since_run >= 1 /\ work_pending
  /\ ~(ble_connected /\ notify_enabled)

\* C8: after the start-up assignment of blocks 0 and 1, every buffer request
\* hands the driver the other block, so the k-th completion (k = 1, 2, ...)
\* reports block (k - 1) mod 2.
C8_BlockRotation ==
  /\ done_count >= 1 => last_done_buf = (done_count - 1) % 2
  /\ hw_primary # NONE => hw_primary = done_count % 2
  /\ hw_secondary # NONE => hw_secondary = (done_count + 1) % 2

C8_Witness == done_count >= 3 /\ last_done_buf = 0 /\ hw_primary = 1 /\ hw_secondary = 0

\* C10: once a step of the sampling initialisation has failed, the sample
\* timer is never enabled and no routing channel is enabled.
C10_FailedInitStaysOff ==
  init_failed => (~timer_enabled /\ ppi_enabled = {})

(***************************************************************************)
(* One uninterrupted run of the deferred task over a staged block.  The    *)
(* start is the state after a successful saadc_start and the first DONE,   *)
(* for every reported length and a range of block contents; only the       *)
(* deferred task moves.                                                    *)
(***************************************************************************)
ChunkBlocks == 0..(Len(SampleValues) - 1)

InitChunk ==
  \E b \in ChunkBlocks, L \in 0..SAADC_BUFFER_SIZE :
    /\ main_pc = "defaults"
    /\ main_tmp = TRUE
    /\ start_received = FALSE
    /\ on_recieved = TRUE
    /\ InitUart
    /\ ble_ready = TRUE
    /\ write_buffer = LoadWrite([i \in 0..(RECEIVE_BUFF_SIZE - 1) |-> 0], Tok_ON)
    /\ digipot_channel = 0
    /\ digipot_setting = 0
    /\ pga_number = 0
    /\ pga_setting = 0
    /\ bt_start_received = FALSE
    /\ bt_on_received = TRUE
    /\ last_calls = <<Call("power_up", <<>>)>>
    /\ last_write = Tok_ON
    /\ on_seen = TRUE
    /\ start_seen = FALSE
    /\ timer_inited = TRUE
    /\ timer_enabled = TRUE
    /\ saadc_state = "started"
    /\ hw_primary = 1
    /\ hw_secondary = NONE
    /\ hw_started = TRUE
    /\ ppi_allocated = 2
    /\ ppi_enabled = {"sample", "start"}
    /\ work_inited = TRUE
    /\ init_failed = FALSE
    /\ saadc_current_buffer = 0
    /\ g_ble_buf = CopyToStage([i \in 0..(SAADC_BUFFER_SIZE - 1) |-> 0], SampleBlock(b), L)
    /\ g_ble_len = L
    /\ work_pending = TRUE
    /\ InitWork
    /\ ble_connected = FALSE
    /\ notify_enabled \in BOOLEAN
    /\ link_up \in BOOLEAN
    /\ peer_sub = (link_up /\ notify_enabled)
    /\ done_count = 1
    /\ last_done_buf = 0
    /\ last_block = [k |-> b, size |-> L, len |-> L,
                     samples |-> Prefix(SampleBlock(b), L)]
    /\ staged_lens = <<L>>
    /\ stages_since_run = 1
    /\ run_stages = 0
    /\ run_block = EmptySlot
    /\ run_dirty = FALSE
    /\ run_chunks = <<>>
    /\ run_notified = <<>>

NextChunk == DeferredTask

SpecChunk == InitChunk /\ [][NextChunk]_vars

CeilDiv(a, b) == (a + b - 1) \div b

\* C5: one uninterrupted run over a staged block of L samples hands the
\* transport exactly ceil(L / SAMPLES_PER_NOTIFY) chunks; every chunk but the
\* last carries SAMPLES_PER_NOTIFY samples, the last carries the remainder (or
\* SAMPLES_PER_NOTIFY when there is none); two bytes per sample; and no chunk
\* is ever empty.
C5_ChunkCountAndSizes ==
  /\ \A j \in 1..Len(run_chunks) : Len(run_chunks[j]) > 0
  /\ (RunComplete /\ ~run_dirty) =>
       LET L == run_block.len
           n == CeilDiv(L, SAMPLES_PER_NOTIFY)
       IN /\ Len(run_chunks) = n
          /\ \A j \in 1..n :
               Len(run_chunks[j]) =
                 2 * (IF j < n \/ L % SAMPLES_PER_NOTIFY = 0
                        THEN SAMPLES_PER_NOTIFY ELSE L % SAMPLES_PER_NOTIFY)

C5_Witness ==
  /\ RunComplete /\ ~run_dirty
  /\ Len(run_chunks) >= 2
  /\ run_block.len % SAMPLES_PER_NOTIFY # 0

\* C6: the payloads of the chunks of one uninterrupted run, concatenated in
\* the order sent and read pair by pair as little-endian two's-complement
\* 16-bit values, are exactly the staged samples in order, negative ones
\* included.
C6_ChunkRoundTrip ==
  (RunComplete /\ ~run_dirty) =>
     /\ \A j \in 1..Len(run_chunks) :
          \A i \in 1..Len(run_chunks[j]) : run_chunks[j][i] \in 0..255
     /\ DecodeLE(Concat(run_chunks)) = run_block.samples

C6_Witness ==
  /\ RunComplete /\ ~run_dirty
  /\ Len(run_chunks) >= 2
  /\ \E j \in 1..Len(run_block.samples) :
       run_block.samples[j] < 0 /\ run_block.samples[j] # -32768
  /\ \E j \in 1..Len(run_block.samples) : run_block.samples[j] > 255

(***************************************************************************)
(* The write callback alone, on ranged commands: the state is the one      *)
(* after start_ble, and every step is one write of a command with a        *)
(* payload inside or outside its range.                                    *)
(***************************************************************************)
RangedWrites ==
  { Bytes(<<"D", "D", "S", "O", ":", "5", ".", "0">>),
    Bytes(<<"D", "D", "S", "O", ":", "-", "1", ".", "0">>),
    Bytes(<<"D", "D", "S", "O", ":", "3", ".", "3">>),
    Bytes(<<"D", "D", "S", "A", ":", "-", "1", ".", "0">>),
    Bytes(<<"D", "D", "S", "A", ":", "1", "0", ".", "5">>),
    Bytes(<<"P", "1", ":", "3">>),
    Bytes(<<"P", "2", ":", "7">>),
    Bytes(<<"P", "1", ":", "8">>),
    Bytes(<<"P", "3", ":", "3">>),
    Bytes(<<"P", "1", ":", "6", "5", "5", "3", "6">>),
    Bytes(<<"P", "2", ":", "-", "6", "5", "5", "3", "0">>),
    Bytes(<<"D", "0", ":", "2", "5", "5">>),
    Bytes(<<"D", "0", ":", "2", "5", "6">>),
    Bytes(<<"D", "3", ":", "0">>),
    Bytes(<<"D", "4", ":", "1">>),
    Bytes(<<"M", ":", "3">>),
    Bytes(<<"M", ":", "8">>),
    Bytes(<<"S", "C", "O", ":", "-", "3", ".", "3">>),
    Bytes(<<"S", "C", "O", ":", "3", ".", "4">>),
    Bytes(<<"S", "C", "A", ":", "1", ".", "0">>),
    Bytes(<<"S", "C", "A", ":", "0", ".", "5">>),
    Bytes(<<"S", "C", "A", ":", "7", "0", "0", "0", ".", "0">>),
    Bytes(<<"S", "C", "A", ":", "7", "0", "0", "0", ".", "1">>) }

InitWrite ==
  /\ main_pc = "on_test"
  /\ main_tmp = FALSE
  /\ start_received = FALSE
  /\ on_recieved = FALSE
  /\ command_buffer = [i \in 0..(COMMAND_BUFFER_SIZE - 1) |-> 0]
  /\ cmd_index = 0
  /\ uart_rx_enabled = TRUE
  /\ uart_line = 0
  /\ uart_pos = 0
  /\ ble_ready = TRUE
  /\ write_buffer = [i \in 0..(RECEIVE_BUFF_SIZE - 1) |-> 0]
  /\ digipot_channel = 0
  /\ digipot_setting = 0
  /\ pga_number = 0
  /\ pga_setting = 0
  /\ bt_start_received = FALSE
  /\ bt_on_received = FALSE
  /\ last_calls = <<>>
  /\ last_write = <<>>
  /\ on_seen = FALSE
  /\ start_seen = FALSE
  /\ InitFabric /\ InitStage /\ InitWork /\ InitConn /\ InitHist

NextWrite == \E data \in RangedWrites : WriteCustomValue(data)

SpecWrite == InitWrite /\ [][NextWrite]_vars

\* The written text read as the command table reads it: a prefix, then a
\* decimal payload taken at its mathematical value.
HasPrefix(data, tok) == Len(data) >= Len(tok) /\ SubSeq(data, 1, Len(tok)) = tok

RECURSIVE DecValue(_)
DecValue(ds) ==
  IF ds = <<>> THEN 0
  ELSE DecValue(SubSeq(ds, 1, Len(ds) - 1)) * 10 + (ds[Len(ds)] - Ord("0"))

AllDigits(ds) == ds # <<>> /\ \A i \in 1..Len(ds) : ds[i] \in DigitCodes

Unsigned(text) == IF text # <<>> /\ text[1] = Ord("-") THEN Tail(text) ELSE text

Signed(text, v) == IF text # <<>> /\ text[1] = Ord("-") THEN 0 - v ELSE v

IsIntText(text) == AllDigits(Unsigned(text))

IntText(text) == Signed(text, DecValue(Unsigned(text)))

DotAt(text) == CHOOSE i \in 1..Len(text) : text[i] = Ord(".")

IsDecText(text) ==
  LET u == Unsigned(text)
  IN \/ AllDigits(u)
     \/ /\ \E i \in 1..Len(u) : u[i] = Ord(".")
        /\ AllDigits(SubSeq(u, 1, DotAt(u) - 1))
        /\ AllDigits(SubSeq(u, DotAt(u) + 1, Len(u)))

DecText(text) ==
  LET u == Unsigned(text)
  IN IF AllDigits(u) THEN Rat(Signed(text, DecValue(u)), 1)
     ELSE LET ip == SubSeq(u, 1, DotAt(u) - 1)
              fp == SubSeq(u, DotAt(u) + 1, Len(u))
          IN Rat(Signed(text, DecValue(ip) * (10 ^ Len(fp)) + DecValue(fp)), 10 ^ Len(fp))

Payload(data, n) == SubSeq(data, n + 1, Len(data))

InRat(lo, x, hi) == RatLe(lo, x) /\ RatLe(x, hi)

\* What the command table asks of a write: ranged (a ranged command with a
\* well-formed payload), inrange, and the call that forwards the value.
Reading(data) ==
  LET none == [ranged |-> FALSE, inrange |-> FALSE, fn |-> "", ints |-> <<>>, dec |-> Rat(0, 1)]
      int(fn, sel, okSel, text, lo, hi) ==
        IF IsIntText(text)
          THEN [ranged |-> TRUE,
                inrange |-> okSel /\ IntText(text) >= lo /\ IntText(text) <= hi,
                fn |-> fn, ints |-> sel \o <<IntText(text)>>, dec |-> Rat(0, 1)]
          ELSE none
      dec(fn, text, lo, hi) ==
        IF IsDecText(text)
          THEN [ranged |-> TRUE, inrange |-> InRat(lo, DecText(text), hi),
                fn |-> fn, ints |-> <<>>, dec |-> DecText(text)]
          ELSE none
  IN IF HasPrefix(data, Tok_DDSAc)
       THEN dec("set_dds_amplification", Payload(data, 5),
                MIN_DDS_AMPLIFICATION, MAX_DDS_AMPLIFICATION)
     ELSE IF HasPrefix(data, Tok_DDSOc)
       THEN dec("set_dds_offset", Payload(data, 5), Rat(-33, 10), Rat(33, 10))
     ELSE IF HasPrefix(data, Tok_SCOc)
       THEN dec("set_signal_chain_offset", Payload(data, 4), Rat(-33, 10), Rat(33, 10))
     ELSE IF HasPrefix(data, Tok_SCAc)
       THEN dec("set_signal_chain_amplification", Payload(data, 4), Rat(1, 1), Rat(7000, 1))
     ELSE IF Len(data) >= 4 /\ data[1] = Ord("P") /\ data[2] \in DigitCodes /\ data[3] = Ord(":")
       THEN int("configure_pga", <<data[2] - Ord("0")>>, data[2] - Ord("0") \in 1..2,
                Payload(data, 3), 0, 7)
     ELSE IF Len(data) >= 4 /\ data[1] = Ord("D") /\ data[2] \in DigitCodes /\ data[3] = Ord(":")
       THEN int("digipot_wiper_set", <<data[2] - Ord("0")>>, data[2] - Ord("0") \in 0..3,
                Payload(data, 3), 0, 255)
     ELSE IF HasPrefix(data, Bytes(<<"M", ":">>))
       THEN int("set_mux", <<>>, TRUE, Payload(data, 2), 0, 7)
     ELSE none

Forwarded(calls, r) ==
  /\ Len(calls) = 1
  /\ calls[1].fn = r.fn
  /\ IF r.ints # <<>> THEN calls[1].args = r.ints
     ELSE Len(calls[1].args) = 1 /\ RatEq(calls[1].args[1], r.dec)

\* C9: a write of a ranged command (DDSA, DDSO, P1/P2, D0..D3, M, SCO, SCA)
\* whose payload value, or stage or channel number, is outside the stated
\* range calls no collaborator and changes no setting or flag; one whose
\* payload is inside the range forwards exactly that value to its collaborator.
C9_RangeRejection ==
  [][ Reading(last_write').ranged =>
        IF Reading(last_write').inrange
          THEN Forwarded(last_calls', Reading(last_write'))
          ELSE /\ last_calls' = <<>>
               /\ UNCHANGED <<pga_number, pga_setting, digipot_channel, digipot_setting,
                              bt_on_received, bt_start_received>>
    ]_vars

(***************************************************************************)
(* Ordering of the trigger fabric and of the phases.                       *)
(***************************************************************************)
\* C11: the sample timer goes from disabled to enabled only in the handling
\* of the converter's first STARTED interrupt (READY), and at that moment
\* the converter has been given its destination buffer and has been
\* triggered; no other step enables the timer.
C11_TimerOnlyAfterReady ==
  [][ (~timer_enabled /\ timer_enabled') =>
        /\ saadc_state = "sample" /\ saadc_state' = "started"
        /\ hw_started /\ ~hw_started'
        /\ hw_primary # NONE
        /\ main_pc \notin {"cfg_timer", "cfg_saadc_init", "cfg_channels", "cfg_adv",
                           "cfg_buf0", "cfg_buf1", "cfg_trigger"}
    ]_vars

C11_Witness == timer_enabled /\ hw_primary = 0 /\ saadc_state = "started" /\ done_count = 0

\* C12: no DONE event is handled and no chunk is handed to the transport
\* before a START command has been observed on the serial or the wireless
\* channel.
C12_NoCollectionBeforeStart ==
  (done_count > 0 \/ work_pending \/ run_chunks # <<>>) => start_seen

\* The phase the orchestration flow is in: 0 Idle (up to the return of
\* wait_for_on_command), 1 PoweredUp (gpio_init to config_default_settings),
\* 2 Armed (inside wait_for_start_command), 3 Running (after its return).
Phase ==
  IF main_pc \in {"boot", "on_enable"} \cup WaitOnPcs THEN 0
  ELSE IF main_pc \in {"start_enable"} \cup WaitStartPcs THEN 2
  ELSE IF main_pc \in {"spawn", "running"} THEN 3
  ELSE 1

\* C13: the flow leaves Idle only after an ON command has been received on
\* the serial or the wireless channel, is Running only after a START command
\* has been received, and moves through Idle, PoweredUp, Armed, Running in
\* that order, one phase at a time, never back.
C13_PhaseOrder ==
  [][ /\ Phase' \in {Phase, Phase + 1}
      /\ Phase' >= 1 => on_seen'
      /\ Phase' = 3 => start_seen'
    ]_vars


(***************************************************************************)
(* The command gate with a serial peer whose lines may hold characters     *)
(* outside the accepted set.                                               *)
(***************************************************************************)
NextNoisy == Main \/ UartFeed(NoisyLineBytes) \/ BleWriteGate \/ SaadcStartedIrq

SpecNoisy == Init /\ [][NextNoisy]_vars

\* A step in which the callback handles the carriage return ending a line.
LineEnds == uart_line # 0 /\ uart_line' = 0

\* C14: for every serial line, the UART callback sets power requested if and
\* only if the line is exactly ON and start requested if and only if the
\* line is exactly START; any other line, also one with characters outside
\* the accepted set before or after those letters, leaves both flags as they
\* were.
C14_SerialExactTokens ==
  [][ LineEnds =>
        LET line == NoisyLineBytes[uart_line]
        IN /\ on_recieved' = (line = OnLine \/ on_recieved)
           /\ start_received' = (line = StartLine \/ start_received)
    ]_vars

(***************************************************************************)
(* The write callback on the whole vocabulary: one write of each command,  *)
(* valid or out of range, tokens it does not know, ON and START.           *)
(***************************************************************************)
CmdWrites ==
  { Bytes(<<"S", "D", "D", "S", ":", "5">>),
    Bytes(<<"D", "D", "S", "A", ":", "1">>),
    Bytes(<<"D", "D", "S", "O", ":", "9">>),
    Bytes(<<"P", "1", ":", "3">>),
    Bytes(<<"D", "0", ":", "9">>),
    Bytes(<<"M", ":", "3">>),
    Bytes(<<"S", "C", "O", ":", "1">>),
    Bytes(<<"S", "C", "A", ":", "2">>),
    Bytes(<<"I", "D", "D", "S">>),
    Bytes(<<"D", "D", "S", "O", "F", "F">>),
    Bytes(<<"O", "F", "F">>),
    Bytes(<<"X", "Y", "Z">>),
    Bytes(<<"O">>),
    Bytes(<<"S", "T", "A", "R">>),
    Bytes(<<"O", "N">>),
    Bytes(<<"S", "T", "A", "R", "T">>) }

NextCmd == \E data \in CmdWrites : WriteCustomValue(data)

SpecCmd == InitWrite /\ [][NextCmd]_vars

IsOnWrite(data) == HasPrefix(data, Bytes(<<"O", "N">>))

IsStartWrite(data) == HasPrefix(data, Bytes(<<"S", "T", "A", "R", "T">>))

\* C15: a wireless write that is neither ON nor START (a configuration
\* command, valid or out of range, OFF, or a token the callback does not
\* know) leaves the power-requested and start-requested flags of both
\* channels as they were.
C15_ConfigKeepsPhase ==
  [][ ~(IsOnWrite(last_write') \/ IsStartWrite(last_write')) =>
        UNCHANGED <<bt_on_received, bt_start_received, on_recieved, start_received>>
    ]_vars

C15_Witness ==
  /\ last_write = Bytes(<<"O", "F", "F">>)
  /\ last_calls = <<Call("power_down", <<>>)>>
  /\ bt_on_received /\ ~bt_start_received

\* C16: while a peer is connected and subscribed, every chunk the deferred
\* task hands to the transport is pushed to the notification channel.
C16_StreamToSubscriber ==
  [][ (C7_SendStep /\ link_up /\ peer_sub) =>
        run_notified' = Append(run_notified, run_chunks'[Len(run_chunks')])
    ]_vars

(***************************************************************************)
(* Ownership of the sample blocks and of the flags.                        *)
(***************************************************************************)
BufReqStep == saadc_current_buffer' # saadc_current_buffer

DoneStep == done_count' # done_count

\* The blocks the converter is writing: its current destination while it has
\* been triggered and has not stopped.
BeingWritten ==
  IF saadc_state \in {"sample", "started"} /\ hw_primary # NONE
    THEN {hw_primary} ELSE {}

\* C17 as stated: in every reachable state exactly one of the two blocks is
\* being written by the converter.
C17_AlwaysOneBlockWritten == Cardinality(BeingWritten) = 1

\* C17, amended: from the trigger on and while the converter runs it writes
\* exactly one of the two blocks; the block a BUFFER_REQUEST queues as the next
\* destination is one of the two and is not the block being filled; and the
\* block a DONE event hands to the software is not the block the converter
\* fills next.
C17_BlockOwnership ==
  [][ /\ saadc_state' \in {"sample", "started"} =>
           BeingWritten' \in {{0}, {1}}
      /\ BufReqStep =>
           /\ hw_primary' = hw_primary
           /\ hw_secondary' \in {0, 1} \ {hw_primary}
      /\ DoneStep =>
           /\ last_done_buf' \in {0, 1}
           /\ hw_primary' # last_done_buf'
    ]_vars

C17_Witness ==
  /\ saadc_current_buffer = 2 /\ done_count = 2
  /\ saadc_state = "started"
  /\ hw_primary = 0 /\ hw_secondary = 1 /\ last_done_buf = 1

MainThreadStep == main_pc' # main_pc

UartStep == <<uart_line, uart_pos>>' # <<uart_line, uart_pos>>

StreamingStep == wk_pc' # wk_pc

\* C18: the serial start/on flags change only in steps of the UART callback,
\* the wireless start/on flags only in steps of the write callback, the
\* connected/subscribed flags only in steps of the lifecycle callbacks; a step
\* of the polling loops or of the streaming path changes none of them.
C18_SingleWriterPerFlag ==
  [][ /\ <<start_received, on_recieved>>' # <<start_received, on_recieved>> =>
           UartStep /\ ~MainThreadStep
      /\ <<bt_start_received, bt_on_received>>' # <<bt_start_received, bt_on_received>> =>
           ~UartStep /\ ~MainThreadStep /\ ~StreamingStep
      /\ <<ble_connected, notify_enabled>>' # <<ble_connected, notify_enabled>> =>
           ~UartStep /\ ~MainThreadStep /\ ~StreamingStep
    ]_vars

\* C19: after the DONE handler has run for a block with reported length n, the
\* staged length is min(n, SAADC_BUFFER_SIZE) and the first min(n,
\* SAADC_BUFFER_SIZE) entries of the staging slot are the block's samples in
\* order; the staged length never exceeds SAADC_BUFFER_SIZE.
C19_StagingCopyAndBound ==
  /\ g_ble_len \in 0..SAADC_BUFFER_SIZE
  /\ done_count >= 1 =>
       LET m == Min(last_block.size, SAADC_BUFFER_SIZE)
       IN /\ g_ble_len = m
          /\ \A i \in 0..(m - 1) : g_ble_buf[i] = SampleBlock(last_block.k)[i]

C19_Witness ==
  /\ done_count >= 2
  /\ last_block.size > SAADC_BUFFER_SIZE
  /\ g_ble_len = SAADC_BUFFER_SIZE
  /\ g_ble_buf[SAADC_BUFFER_SIZE - 1] = SampleBlock(done_count - 1)[SAADC_BUFFER_SIZE - 1]

(***************************************************************************)
(* The running pipeline: the start is the state after a saadc_start in     *)
(* which every driver call succeeded (blocks 0 and 1 queued, converter     *)
(* triggered, both channels enabled, work item initialised), and the       *)
(* converter's interrupts and the deferred task move.  In FairDrain the    *)
(* system work queue is scheduled fairly: a submitted work item is         *)
(* eventually run and a running handler eventually goes on.                *)
(***************************************************************************)
InitDrain ==
  /\ main_pc = "defaults"
  /\ main_tmp = TRUE
  /\ start_received = FALSE
  /\ on_recieved = TRUE
  /\ command_buffer = [i \in 0..(COMMAND_BUFFER_SIZE - 1) |-> 0]
  /\ cmd_index = 0
  /\ uart_rx_enabled = TRUE
  /\ uart_line = 0
  /\ uart_pos = 0
  /\ ble_ready = TRUE
  /\ write_buffer = LoadWrite([i \in 0..(RECEIVE_BUFF_SIZE - 1) |-> 0], Tok_ON)
  /\ digipot_channel = 0
  /\ digipot_setting = 0
  /\ pga_number = 0
  /\ pga_setting = 0
  /\ bt_start_received = FALSE
  /\ bt_on_received = TRUE
  /\ last_calls = <<Call("power_up", <<>>)>>
  /\ last_write = Tok_ON
  /\ on_seen = TRUE
  /\ start_seen = FALSE
  /\ timer_inited = TRUE
  /\ timer_enabled = FALSE
  /\ saadc_state = "sample"
  /\ hw_primary = 0
  /\ hw_secondary = 1
  /\ hw_started = TRUE
  /\ ppi_allocated = 2
  /\ ppi_enabled = {"sample", "start"}
  /\ work_inited = TRUE
  /\ init_failed = FALSE
  /\ InitStage
  /\ InitWork
  /\ InitConn
  /\ InitHist

NextDrain == Sampler \/ DeferredTask

SpecDrain == InitDrain /\ [][NextDrain]_vars

FairDrain == SpecDrain /\ WF_vars(DeferredTask)

\* The k-th staged block has been handed to the transport in full by a drain
\* that began after the k-th DONE had staged it and that no DONE interrupted.
HandedInFull(k) ==
  /\ wk_pc = "idle" /\ ~work_pending
  /\ run_block.k = k /\ ~run_dirty
  /\ Concat(run_chunks) = EncodeLE(StagedBlock(k))

\* No DONE yet, or the latest staged block has been handed over in full.
LatestTransported == done_count = 0 \/ HandedInFull(done_count - 1)

\* C20: with the deferred task scheduled fairly, whenever a DONE event has
\* staged a block, a drain that begins after that staging eventually completes
\* and hands the most recently staged block to the transport in full; also
\* when the DONE comes while the work item is queued or while a drain is in
\* progress.
C20_LatestBlockTransported == []<>LatestTransported

C20_Witness ==
  /\ done_count >= 2
  /\ HandedInFull(done_count - 1)
  /\ run_stages >= 2

(***************************************************************************)
(* Connection lifecycle.                                                   *)
(***************************************************************************)
DisconnectStep == link_up /\ ~link_up'

NotifyStep == Len(run_notified') = Len(run_notified) + 1

CarryWrites ==
  { Bytes(<<"P", "1", ":", "3">>),
    Bytes(<<"D", "0", ":", "9">>),
    Bytes(<<"M", ":", "3">>),
    Bytes(<<"S", "D", "D", "S", ":", "5">>),
    Bytes(<<"S", "T", "A", "R", "T">>),
    Bytes(<<"O", "N">>),
    Bytes(<<"P", "2", ":">>),
    Bytes(<<"S", "D", "D", "S", ":">>),
    Bytes(<<"P", "1">>),
    Bytes(<<"D", "0">>),
    Bytes(<<"M", ":">>),
    Bytes(<<"P">>),
    Bytes(<<"D">>),
    Bytes(<<"M">>),
    Bytes(<<"S">>),
    Bytes(<<"O">>),
    <<>> }

NextCarry == \E data \in CarryWrites : WriteCustomValue(data)

SpecCarry == InitWrite /\ [][NextCarry]_vars

\* write_buffer before any write (bluetooth.c:32).
CleanBuffer == [i \in 0..(RECEIVE_BUFF_SIZE - 1) |-> 0]

\* What the callback does with a write when no earlier write has left
\* anything in write_buffer.
AloneEffect(data) == Dispatch(LoadWrite(CleanBuffer, data))

\* C22: for a write of at most 19 bytes, the collaborator calls made and the
\* flag and setting updates performed are the ones the same write gets on a
\* receive buffer no earlier write has touched: they depend on the bytes of
\* that write alone.
C22_NoCarryOver ==
  [][ Len(last_write') <= RECEIVE_BUFF_SIZE - 1 =>
        \E e \in {AloneEffect(last_write')} :
          /\ last_calls' = e.calls
          /\ bt_on_received' = (e.on \/ bt_on_received)
          /\ bt_start_received' = (e.start \/ bt_start_received)
          /\ <<pga_number', pga_setting'>> =
               IF e.pga = NoPair THEN <<pga_number, pga_setting>> ELSE e.pga
          /\ <<digipot_channel', digipot_setting'>> =
               IF e.digipot = NoPair THEN <<digipot_channel, digipot_setting>>
               ELSE e.digipot
    ]_vars

\* "P" written after "P1:3": the test of write_buffer[2] finds the ':' the
\* earlier write left.
C22_Witness ==
  /\ last_write = Bytes(<<"P">>)
  /\ write_buffer[1] = 0
  /\ write_buffer[2] = Ord(":")
  /\ write_buffer[3] = Ord("3")
  /\ last_calls = <<>>

(***************************************************************************)
(* The write callback on writes of every length up to the 20 bytes a       *)
(* write may carry.                                                        *)
(***************************************************************************)
\* count copies of the character c
Fill(c, count) == [i \in 1..count |-> Ord(c)]

LongWrites ==
  { <<>>,
    Bytes(<<"O", "N">>),
    Bytes(<<"P", "1", ":", "3">>),
    Bytes(<<"D", "0", ":">>) \o Fill("0", 15) \o Bytes(<<"9">>),
    Bytes(<<"P", "2", ":">>) \o Fill("0", 15) \o Bytes(<<"7">>),
    Bytes(<<"S", "D", "D", "S", ":">>) \o Fill("0", 13) \o Bytes(<<"5">>),
    Bytes(<<"S", "D", "D", "S", ":">>) \o Fill("0", 14) \o Bytes(<<"5">>),
    Bytes(<<"D", "0", ":">>) \o Fill("0", 16) \o Bytes(<<"9">>),
    Bytes(<<"P", "2", ":">>) \o Fill("0", 16) \o Bytes(<<"7">>),
    Bytes(<<"M", ":", "3">>) \o Fill("X", 17),
    Fill("X", 20) }

NextLong == \E data \in LongWrites : WriteCustomValue(data)

SpecLong == InitWrite /\ [][NextLong]_vars

\* The indices of write_buffer stored to for a write of len bytes:
\* memcpy(write_buffer, buf, len) stores 0..len-1, write_buffer[len] = '\0'
\* stores len (bluetooth.c:66-68).
StoreIndices(len) == 0..len

\* C23: for a write of 0..20 bytes the callback stores only to indices 0..19
\* of the 20-byte receive buffer, the terminator it appends included.
C23_ReceiveBufferBounds ==
  [][ Len(last_write') <= RECEIVE_BUFF_SIZE =>
        StoreIndices(Len(last_write')) \subseteq 0..(RECEIVE_BUFF_SIZE - 1)
    ]_vars

(***************************************************************************)
(* The UART callback on lines longer than the command buffer: the state is *)
(* the one in wait_for_on_command with reception enabled, and every step   *)
(* is the callback on the next character of a line.                        *)
(***************************************************************************)
FloodLines ==
  << Bytes(<<"O", "N", "CR">>),
     Bytes(<<"S", "T", "A", "R", "T", "CR">>),
     Fill("A", COMMAND_BUFFER_SIZE - 1) \o Bytes(<<"CR">>),
     Fill("7", COMMAND_BUFFER_SIZE) \o Bytes(<<"n", "CR">>),
     Fill("Z", COMMAND_BUFFER_SIZE + 1) \o Bytes(<<"n", "CR">>) >>

NextFlood == UartFeed(FloodLines)

SpecFlood == InitWrite /\ [][NextFlood]_vars

\* The character the callback is run on in this step.
FloodChar ==
  FloodLines[IF uart_line # 0 THEN uart_line ELSE uart_line'][uart_pos + 1]

\* C24: every store command_buffer[cmd_index] the UART callback performs (one
\* for each accepted character) uses an index inside the 32-byte buffer,
\* also when 32 or more accepted characters come with no carriage return.
C24_CommandBufferBounds ==
  [][ (UartStep /\ IsAccepted(FloodChar)) =>
        cmd_index \in 0..(COMMAND_BUFFER_SIZE - 1)
    ]_vars

\* C25: in every execution of saadc_start, those with a failing configuration
\* step included, a DONE event is handled, and the work item submitted, only
\* after k_work_init has initialised the work item.
C25_WorkInitBeforeUse ==
  [][ /\ DoneStep => work_inited
      /\ work_pending' => work_inited'
    ]_vars

\* A DONE handled while saadc_start has not yet returned.
C25_Witness ==
  /\ done_count >= 1
  /\ work_pending
  /\ work_inited
  /\ main_pc = "cfg_ppi_en2"

====
